---- MODULE Spec2Model ----
(***************************************************************************)
(* Calculo: the retry helper (utils/retry.ts withRetry), the in-memory     *)
(* ProblemCache (utils/retry.ts), the two-pass generation run              *)
(* (services/gemini.ts generateMathContent), its caller handleGenerate and *)
(* the response parser parseGeminiResponse (App.tsx), as state machines.   *)
(*                                                                         *)
(* Optional values (T | null | undefined) are sequences of length <= 1:    *)
(* <<>> is null/undefined, <<v>> is the value v.  Time is in milliseconds. *)
(***************************************************************************)
EXTENDS Integers, Sequences, FiniteSets, TLC

VARIABLES
    now,            \* Date.now(), ms
    inflight,       \* backend calls that have been issued and have not settled
    \* ---- withRetry (one invocation) ----
    rpc,            \* "idle" | "awaitFn" | "sleep" | "resolved" | "rejected"
    maxRetries,     \* parameter maxRetries
    delay,          \* parameter delay
    i,              \* the loop variable
    calls,          \* number of times fn has been invoked
    attempts,       \* outcome of every settled fn() call, in order
    sleeps,         \* the timeouts handed to setTimeout, in order
    rval,           \* the value withRetry resolved with
    rerr,           \* the error withRetry rejected with
    \* ---- generateMathContent (one run) ----
    gpc,            \* "none" | "start" | "analyst" | "generating" | "resolved" | "rejected"
    req,            \* the arguments of the run
    progress,       \* the updates onProgress has been called with, in order
    analystOut,     \* how the analyst backend call settled, if one was issued
    analystSummary, \* const analystSummary
    startTime,      \* const startTime
    resultData,     \* the value the run resolved with
    runErr,         \* the error the run rejected with
    \* ---- ProblemCache ----
    cache,          \* Map<string, CacheEntry>: key -> entry
    lastOp,         \* the last cache operation, its arguments and what it returned
    shadow,         \* per (mode, difficulty, normalized topic): the latest set since the last clear
    nSets,          \* number of set() calls so far
    nTicks,         \* number of clock advances so far
    \* ---- App (the state handleGenerate drives) ----
    status,         \* AppStatus
    appError,       \* const [error, setError]
    problemData,    \* const [problemData, setProblemData]
    history,        \* const [history, setHistory]: the items, newest first
    generatedImage, \* const [generatedImage, setGeneratedImage]
    activeTab,      \* const [activeTab, setActiveTab]
    runs,           \* the handleGenerate calls awaiting generateMathContent
    images,         \* the handleGenerateImage calls awaiting generateProblemImage
    \* ---- InputForm ----
    files,          \* const [files, setFiles]
    reading,        \* the handleFileChange calls that are reading their files
    \* ---- QuizDisplay ----
    quizData,       \* the data prop
    currentQuestionIndex,
    selectedAnswers, \* question index -> option index
    showResults,
    \* ---- parseGeminiResponse on a text put together section by section ----
    doc,            \* the raw text so far, as the sequence of its tokens
    nBlocks,        \* number of blocks the text was put together from
    parsed          \* what parseGeminiResponse returned for doc, once called

retryVars == <<rpc, maxRetries, delay, i, calls, attempts, sleeps, rval, rerr>>
runVars   == <<gpc, req, progress, analystOut, analystSummary, startTime, resultData, runErr>>
cacheVars == <<cache, lastOp, shadow, nSets, nTicks>>
appVars   == <<status, appError, problemData>>
parserVars == <<doc, nBlocks, parsed>>
uiVars    == <<history, generatedImage, activeTab>>
pendingVars == <<runs, images>>
formVars  == <<files, reading>>
quizVars  == <<quizData, currentQuestionIndex, selectedAnswers, showResults>>
viewVars  == <<uiVars, pendingVars, formVars, quizVars>>
vars      == <<now, inflight, retryVars, runVars, cacheVars, appVars, parserVars, viewVars>>

\* -------------------------------------------------------------------------
\* Bounds of the model
\* -------------------------------------------------------------------------
MaxRetriesBound == 4     \* withRetry is explored for maxRetries in -1..MaxRetriesBound
MaxSets == 2             \* cache: at most this many set() calls
MaxTicks == 2            \* cache: at most this many clock advances
MaxBlocks == 3           \* parser: a text is put together from at most this many blocks

\* -------------------------------------------------------------------------
\* Values
\* -------------------------------------------------------------------------
None == <<>>
Some(v) == <<v>>

\* Errors a backend call (or any fn) can throw.
Errors == {"E1", "E2"}
AnalystErrors == {"EA"}
MaxRetriesError == "Max retries exceeded"

\* The reply of a backend call: response.text and response.usageMetadata.
\* text is undefined, empty, a JSON array (of one element, or of five quiz
\* questions), text that is no JSON, or the filled-in PROBLEM template.
QuizReply == "[q1,q2,q3,q4,q5]"
TemplateReply == "## Generated Problem ... \\boxed{42} ..."
ReplyTexts == {None, Some(""), Some("[c1]"), Some("[c2]"), Some("not json"),
               Some(QuizReply), Some(TemplateReply)}
Usages == {None, Some([promptTokenCount |-> 11, candidatesTokenCount |-> 23])}
Replies == [text : ReplyTexts, usage : Usages]

\* How long a backend call takes, and how late a timer fires.
CallDurations == {1, 30}
TimerSlack == {0, 2}

Delays == {1000, 300}
DefaultMaxRetries == 3
DefaultDelay == 1000

RECURSIVE Pow2(_)
Pow2(n) == IF n = 0 THEN 1 ELSE 2 * Pow2(n - 1)

RECURSIVE SumSeq(_)
SumSeq(s) == IF s = <<>> THEN 0 ELSE Head(s) + SumSeq(Tail(s))

\* -------------------------------------------------------------------------
\* withRetry  (src/utils/retry.ts 5-19)
\* -------------------------------------------------------------------------
FnCall(idx) == [kind |-> "fn", attempt |-> idx]

\* Mutant of RetryIter: the loop condition is i <= maxRetries.
RetryIterInclusive(idx, maxR, infl) ==
    /\ i' = idx
    /\ IF idx <= maxR
       THEN /\ rpc' = "awaitFn"
            /\ calls' = calls + 1
            /\ inflight' = infl \cup {FnCall(idx)}
            /\ rerr' = rerr
       ELSE /\ rpc' = "rejected"
            /\ calls' = calls
            /\ inflight' = infl
            /\ rerr' = Some(MaxRetriesError)

\* The head of the for loop with loop variable idx: either fn() is invoked
\* (line 12) or the loop is left and the generic error is thrown (line 18).
\* infl: the backend calls in flight when the loop head is reached.
RetryIter(idx, maxR, infl) ==
    /\ i' = idx
    /\ IF idx < maxR
       THEN /\ rpc' = "awaitFn"
            /\ calls' = calls + 1
            /\ inflight' = infl \cup {FnCall(idx)}
            /\ rerr' = rerr
       ELSE /\ rpc' = "rejected"
            /\ calls' = calls
            /\ inflight' = infl
            /\ rerr' = Some(MaxRetriesError)

\* withRetry(fn, maxR, d) is called: the loop starts with i = 0.
RetryEnter(maxR, d, infl) ==
    /\ maxRetries' = maxR
    /\ delay' = d
    /\ RetryIter(0, maxR, infl)
    /\ UNCHANGED <<attempts, sleeps, rval>>

\* Mutant of RetryResolve: `await fn()` without the return, so the loop goes on.
RetryResolveNoReturn(v, dur) ==
    /\ rpc = "awaitFn"
    /\ attempts' = Append(attempts, [ok |-> TRUE, val |-> Some(v), err |-> None])
    /\ now' = now + dur
    /\ RetryIter(i + 1, maxRetries, inflight \ {FnCall(i)})
    /\ UNCHANGED <<maxRetries, delay, sleeps, rval>>

\* fn() resolved with v: `return await fn()` (line 12).
RetryResolve(v, dur) ==
    /\ rpc = "awaitFn"
    /\ rpc' = "resolved"
    /\ rval' = Some(v)
    /\ attempts' = Append(attempts, [ok |-> TRUE, val |-> Some(v), err |-> None])
    /\ inflight' = inflight \ {FnCall(i)}
    /\ now' = now + dur
    /\ UNCHANGED <<maxRetries, delay, i, calls, sleeps, rerr>>

\* Mutant of RetryThrow: the first error is kept and rethrown at the end.
RetryThrowFirstError(e, dur) ==
    /\ rpc = "awaitFn"
    /\ attempts' = Append(attempts, [ok |-> FALSE, val |-> None, err |-> Some(e)])
    /\ inflight' = inflight \ {FnCall(i)}
    /\ now' = now + dur
    /\ IF i = maxRetries - 1
       THEN /\ rpc' = "rejected"
            /\ rerr' = attempts'[1].err
            /\ sleeps' = sleeps
       ELSE /\ rpc' = "sleep"
            /\ rerr' = rerr
            /\ sleeps' = Append(sleeps, delay * Pow2(i))
    /\ UNCHANGED <<maxRetries, delay, i, calls, rval>>

\* Mutant of RetryThrow: linear backoff, delay * (i + 1).
RetryThrowLinear(e, dur) ==
    /\ rpc = "awaitFn"
    /\ attempts' = Append(attempts, [ok |-> FALSE, val |-> None, err |-> Some(e)])
    /\ inflight' = inflight \ {FnCall(i)}
    /\ now' = now + dur
    /\ IF i = maxRetries - 1
       THEN /\ rpc' = "rejected"
            /\ rerr' = Some(e)
            /\ sleeps' = sleeps
       ELSE /\ rpc' = "sleep"
            /\ rerr' = rerr
            /\ sleeps' = Append(sleeps, delay * (i + 1))
    /\ UNCHANGED <<maxRetries, delay, i, calls, rval>>

\* fn() rejected with e: the catch block (lines 13-16).
RetryThrow(e, dur) ==
    /\ rpc = "awaitFn"
    /\ attempts' = Append(attempts, [ok |-> FALSE, val |-> None, err |-> Some(e)])
    /\ inflight' = inflight \ {FnCall(i)}
    /\ now' = now + dur
    /\ IF i = maxRetries - 1
       THEN /\ rpc' = "rejected"
            /\ rerr' = Some(e)
            /\ sleeps' = sleeps
       ELSE /\ rpc' = "sleep"
            /\ rerr' = rerr
            /\ sleeps' = Append(sleeps, delay * Pow2(i))
    /\ UNCHANGED <<maxRetries, delay, i, calls, rval>>

\* The backoff timer fires: i++ and the loop head again.
RetryWake(slack) ==
    /\ rpc = "sleep"
    /\ now' = now + sleeps[Len(sleeps)] + slack
    /\ RetryIter(i + 1, maxRetries, inflight)
    /\ UNCHANGED <<maxRetries, delay, attempts, sleeps, rval>>

\* ---- the actions of a stand-alone withRetry call ----
Invoke ==
    /\ rpc = "idle"
    /\ gpc = "none"
    /\ \E maxR \in (-1)..MaxRetriesBound, d \in Delays : RetryEnter(maxR, d, inflight)
    /\ UNCHANGED <<now, runVars, cacheVars, viewVars, appVars, parserVars>>

FnResolve ==
    /\ gpc = "none"
    /\ \E v \in Replies, dur \in CallDurations : RetryResolve(v, dur)
    /\ UNCHANGED <<runVars, cacheVars, viewVars, appVars, parserVars>>

FnThrow ==
    /\ gpc = "none"
    /\ \E e \in Errors, dur \in CallDurations : RetryThrow(e, dur)
    /\ UNCHANGED <<runVars, cacheVars, viewVars, appVars, parserVars>>

TimerFire ==
    /\ \E slack \in TimerSlack : RetryWake(slack)
    /\ UNCHANGED <<runVars, cacheVars, viewVars, appVars, parserVars>>


\* -------------------------------------------------------------------------
\* generateMathContent  (src/services/gemini.ts 279-336)
\* -------------------------------------------------------------------------
Modes == {"PROBLEM", "FLASHCARDS", "QUIZ"}
RunTopics == {"", "derivatives"}
RunFiles == {<<>>, <<"notes.pdf">>}
\* 7 stands for a level outside 1..5.
RunDifficulties == {2, 4, 7}
Requests == [topic : RunTopics, files : RunFiles, difficulty : RunDifficulties,
             mode : Modes, hasProgress : BOOLEAN]

AnalystModel == "gemini-2.5-flash (Analyst)"
NoContextSummary == "No specific context provided. Generate a general problem."
AnalysisFailed == "Analysis failed."
AnalystFallback == "Analyst could not extract context. Proceed with raw user topic."
\* response.text of the analyst call; "" stands for an empty or undefined text.
AnalystTexts == {"", "Topic: calculus, difficulty: medium"}
AnalystCall == [kind |-> "analyst", attempt |-> 0]

\* a || b on strings: b when a is undefined or empty.
OrElse(opt, dflt) == IF opt # None /\ opt[1] # "" THEN opt[1] ELSE dflt

\* mode === 'PROBLEM' ? 'gemini-3-pro-preview' : 'gemini-2.5-flash'
GeneratorModel(mode) == IF mode = "PROBLEM" THEN "gemini-3-pro-preview" ELSE "gemini-2.5-flash"

\* The alternatives of the four domain patterns (runArchitectMode 123-126)
\* that occur in the lower-cased text s, for the texts of the model.
KeywordsIn(s) ==
    CASE s = "derivatives" -> {"derivative"}
      [] s = "Topic: calculus, difficulty: medium" -> {"calculus"}
      [] OTHER -> {}
CalculusWords == {"calculus", "derivative", "integral", "limit", "continuity"}
AlgebraWords == {"algebra", "polynomial", "equation", "matrix", "linear"}
GeometryWords == {"geometry", "triangle", "circle", "angle", "area", "volume"}
ProofWords == {"proof", "theorem", "lemma", "induction", "logic"}

\* domainContext (lines 128-131): the first pattern that matches wins.
domainContext(kw) ==
    CASE kw \cap CalculusWords # {} -> " (Calculus domain)"
      [] kw \cap AlgebraWords # {} -> " (Algebra domain)"
      [] kw \cap GeometryWords # {} -> " (Geometry domain)"
      [] kw \cap ProofWords # {} -> " (Proof-based)"
      [] OTHER -> ""

\* The instruction for a level and the keywords found (lines 133-138).
LevelInstruction(level, kw) ==
    CASE level = 1 -> "Create a problem of EQUAL difficulty" \o domainContext(kw)
                      \o ". Focus on reinforcement and conceptual clarity. Use straightforward applications of fundamental concepts."
      [] level = 2 -> "Create a problem slightly harder (1.2x)" \o domainContext(kw)
                      \o ". Introduce one new constraint or minor twist to the basic concept."
      [] level = 3 -> "Create a problem 1.5x HARDER" \o domainContext(kw)
                      \o ". Combine 2-3 concepts or require multi-step reasoning."
      [] level = 4 -> "Create a significantly harder problem (2.0x)" \o domainContext(kw)
                      \o ". Require deep insight, multiple solution stages, and creative problem-solving."
      [] level = 5 -> "Create an OLYMPIAD-LEVEL problem" \o domainContext(kw)
                      \o ". Require abstract thinking, novel application of concepts, proof techniques, or exceptional mathematical creativity."
      [] OTHER -> "Create a problem 1.5x HARDER" \o domainContext(kw) \o "."

\* getDifficultyInstruction(level, contextSummary) inside runArchitectMode
\* (lines 119-139); the keywords are searched in the topic and the summary.
getDifficultyInstruction(level, topic, contextSummary) ==
    LevelInstruction(level, KeywordsIn(topic) \cup KeywordsIn(contextSummary))

\* The prompt text the second pass builds, as the values interpolated into
\* its template (runArchitectMode 143-153, runFlashcardMode 170-183,
\* runQuizMode 213-227).
PromptOf(r, summary) ==
    CASE r.mode = "PROBLEM" ->
           [template |-> "architect", summary |-> summary,
            topic |-> OrElse(Some(r.topic), "See Analyst Report"),
            difficulty |-> Some(r.difficulty), flavour |-> None,
            instruction |-> Some(getDifficultyInstruction(r.difficulty, r.topic, summary))]
      [] r.mode = "FLASHCARDS" ->
           [template |-> "flashcards", summary |-> summary, topic |-> r.topic,
            difficulty |-> None, flavour |-> None, instruction |-> None]
      [] OTHER ->
           [template |-> "quiz", summary |-> summary, topic |-> r.topic,
            difficulty |-> Some(r.difficulty),
            flavour |-> Some(IF r.difficulty >= 4 THEN "challenging" ELSE "standard"),
            instruction |-> None]

\* JSON.parse on the reply texts of the model.  An element of a parsed array
\* is given by the fields a quiz question is read by.
JsonValid(s) == s \in {"[]", "[c1]", "[c2]", QuizReply}
Item(id, nOptions, correct) ==
    [id |-> id, options |-> [k \in 1..nOptions |-> "option"], correctAnswer |-> correct]
JsonParse(s) ==
    CASE s = "[c1]" -> <<Item(1, 4, 0)>>
      [] s = "[c2]" -> <<Item(2, 3, 5)>>
      [] s = QuizReply -> [k \in 1..5 |-> Item(k, 4, k % 4)]
      [] OTHER -> <<>>
SyntaxError == "SyntaxError"

Update(model, report, prompt) == [model |-> model, analystReport |-> report, debugPrompt |-> prompt]

\* onProgress(u), when a callback was given.
Notify(prog, r, u) == IF r.hasProgress THEN Append(prog, u) ELSE prog

\* Mutant of AfterAnalyst: the second notification is left out.
AfterAnalystNoNotify(r, summary, prog, infl) ==
    /\ analystSummary' = Some(summary)
    /\ progress' = prog
    /\ gpc' = "generating"
    /\ RetryEnter(DefaultMaxRetries, DefaultDelay, infl)

\* Lines 293-318 up to the first backend call of the second pass: the second
\* notification, then withRetry(...) with the default maxRetries and delay.
AfterAnalyst(r, summary, prog, infl) ==
    /\ analystSummary' = Some(summary)
    /\ progress' = Notify(prog, r, Update(Some(GeneratorModel(r.mode)), Some(summary), None))
    /\ gpc' = "generating"
    /\ RetryEnter(DefaultMaxRetries, DefaultDelay, infl)

\* Mutant of RunStart: getAnalystSummary is not awaited, the second pass
\* starts while the analyst call is in flight.
RunStartNoAwait ==
    /\ gpc = "start"
    /\ LET r == req[1]
           prog == Notify(progress, r, Update(Some(AnalystModel), None, None))
       IN /\ startTime' = now
          /\ IF r.files = <<>> /\ r.topic = ""
             THEN AfterAnalyst(r, NoContextSummary, prog, inflight)
             ELSE AfterAnalyst(r, "[object Promise]", prog, inflight \cup {AnalystCall})
    /\ UNCHANGED <<now, req, analystOut, resultData, runErr, cacheVars, viewVars, appVars, parserVars>>

\* Lines 286-291: the first notification and the call of getAnalystSummary
\* (74-104), which issues a backend call unless there is no context at all.
RunStart ==
    /\ gpc = "start"
    /\ LET r == req[1]
           prog == Notify(progress, r, Update(Some(AnalystModel), None, None))
       IN /\ startTime' = now
          /\ IF r.files = <<>> /\ r.topic = ""
             THEN AfterAnalyst(r, NoContextSummary, prog, inflight)
             ELSE /\ gpc' = "analyst"
                  /\ progress' = prog
                  /\ inflight' = inflight \cup {AnalystCall}
                  /\ UNCHANGED <<analystSummary, retryVars>>
    /\ UNCHANGED <<now, req, analystOut, resultData, runErr, cacheVars, viewVars, appVars, parserVars>>

\* The analyst call resolved: response.text || "Analysis failed." (line 104).
AnalystResolve ==
    /\ gpc = "analyst"
    /\ \E t \in AnalystTexts, dur \in CallDurations :
          /\ now' = now + dur
          /\ analystOut' = Some([ok |-> TRUE, text |-> Some(t), err |-> None])
          /\ AfterAnalyst(req[1], OrElse(Some(t), AnalysisFailed), progress,
                          inflight \ {AnalystCall})
    /\ UNCHANGED <<req, startTime, resultData, runErr, cacheVars, viewVars, appVars, parserVars>>

\* Mutant of AnalystThrow: no catch, the error fails the run.
AnalystThrowPropagates ==
    /\ gpc = "analyst"
    /\ \E e \in AnalystErrors, dur \in CallDurations :
          /\ now' = now + dur
          /\ analystOut' = Some([ok |-> FALSE, text |-> None, err |-> Some(e)])
          /\ inflight' = inflight \ {AnalystCall}
          /\ gpc' = "rejected"
          /\ runErr' = Some(e)
    /\ UNCHANGED <<req, progress, analystSummary, startTime, resultData, retryVars, cacheVars, viewVars, appVars, parserVars>>

\* The analyst call threw: the catch block (lines 105-108).
AnalystThrow ==
    /\ gpc = "analyst"
    /\ \E e \in AnalystErrors, dur \in CallDurations :
          /\ now' = now + dur
          /\ analystOut' = Some([ok |-> FALSE, text |-> None, err |-> Some(e)])
          /\ AfterAnalyst(req[1], AnalystFallback, progress, inflight \ {AnalystCall})
    /\ UNCHANGED <<req, startTime, resultData, runErr, cacheVars, viewVars, appVars, parserVars>>

\* Lines 325-333.
Metrics(r, v, endTime) ==
    [latencyMs |-> endTime - startTime,
     inputTokens |-> IF v.usage = None THEN 0 ELSE v.usage[1].promptTokenCount,
     outputTokens |-> IF v.usage = None THEN 0 ELSE v.usage[1].candidatesTokenCount,
     model |-> GeneratorModel(r.mode)]

\* Mutant of RunFinish: a reply that is no JSON is replaced by the empty list.
RunFinishFallback(r, v, endTime) ==
    LET base == [mode |-> r.mode, analystReport |-> analystSummary,
                 rawResponse |-> None, flashcards |-> None, quiz |-> None,
                 debugPrompt |-> Some(PromptOf(r, analystSummary[1])),
                 debugMetrics |-> Some(Metrics(r, v, endTime))]
        t == OrElse(v.text, "[]")
        s == IF JsonValid(t) THEN t ELSE "[]"
    IN /\ gpc' = "resolved"
       /\ runErr' = runErr
       /\ resultData' = Some(CASE r.mode = "PROBLEM" -> [base EXCEPT !.rawResponse = v.text]
                               [] r.mode = "FLASHCARDS" -> [base EXCEPT !.flashcards = Some(JsonParse(s))]
                               [] OTHER -> [base EXCEPT !.quiz = Some(JsonParse(s))])

\* Lines 302-335 once withRetry has resolved with v.
RunFinish(r, v, endTime) ==
    LET base == [mode |-> r.mode, analystReport |-> analystSummary,
                 rawResponse |-> None, flashcards |-> None, quiz |-> None,
                 debugPrompt |-> Some(PromptOf(r, analystSummary[1])),
                 debugMetrics |-> Some(Metrics(r, v, endTime))]
        s == OrElse(v.text, "[]")
    IN IF r.mode = "PROBLEM"
       THEN /\ gpc' = "resolved"
            /\ resultData' = Some([base EXCEPT !.rawResponse = v.text])
            /\ runErr' = runErr
       ELSE IF ~JsonValid(s)
       THEN /\ gpc' = "rejected"
            /\ resultData' = resultData
            /\ runErr' = Some(SyntaxError)
       ELSE /\ gpc' = "resolved"
            /\ resultData' = Some(IF r.mode = "FLASHCARDS"
                                  THEN [base EXCEPT !.flashcards = Some(JsonParse(s))]
                                  ELSE [base EXCEPT !.quiz = Some(JsonParse(s))])
            /\ runErr' = runErr

\* A backend call of the second pass resolved.
GenResolve ==
    /\ gpc = "generating"
    /\ \E v \in Replies, dur \in CallDurations :
          /\ RetryResolve(v, dur)
          /\ RunFinish(req[1], v, now + dur)
    /\ UNCHANGED <<req, progress, analystOut, analystSummary, startTime, cacheVars, viewVars, appVars, parserVars>>

\* A backend call of the second pass threw: withRetry sleeps, or rejects and
\* the catch of lines 319-322 rethrows.
GenThrow ==
    /\ gpc = "generating"
    /\ \E e \in Errors, dur \in CallDurations :
          /\ RetryThrow(e, dur)
          /\ IF rpc' = "rejected"
             THEN gpc' = "rejected" /\ runErr' = rerr'
             ELSE UNCHANGED <<gpc, runErr>>
    /\ UNCHANGED <<req, progress, analystOut, analystSummary, startTime, resultData, cacheVars, viewVars, appVars, parserVars>>

\* -------------------------------------------------------------------------
\* parseGeminiResponse  (src/App.tsx 87-106)
\*
\* A text is the sequence of its tokens: a heading marker with the phrase
\* after it ("## Final Answer"), the words that may follow a phrase
\* (" Analysis", " Solution", " Code"), white space, a code fence (<fence>
\* stands for three backquotes), or a run of other characters.  The regular expressions are evaluated token by
\* token; in the texts of the model a pattern can only match at a token.
\* -------------------------------------------------------------------------
WhiteSpace == {" ", "\n"}
Fences == {"<fence>python", "<fence>"}

\* const H = '(?:###|##)', then white space and a phrase.
H == {"###", "##"}
Header(h, phrase) == h \o " " \o phrase

\* The 'i' flag: tokens are compared up to letter case (the vocabulary has
\* one heading written in lower case).
FoldCase(tok) == IF tok = "### final answer" THEN "### Final Answer" ELSE tok

\* A pattern is the set of token sequences it matches.
Phrase(phrases) == {<<Header(h, ph)>> : h \in H, ph \in phrases}
Optional(pattern, word) == pattern \cup {Append(alt, word) : alt \in pattern}

ProblemHeader == Phrase({"Generated Problem", "Problem Statement"})
DifficultyHeader == Optional(Phrase({"Difficulty"}), " Analysis")
SolutionHeader ==
    {Append(alt, " Solution") : alt \in Phrase({"Step-by-Step"})}
       \cup Phrase({"Comprehensive Solution"})
\* Mutant of FinalAnswerHeader: level-2 headings only.
FinalAnswerHeaderLevel2 == {<<Header("##", "Final Answer")>>}
FinalAnswerHeader == Phrase({"Final Answer"})
VisualizationHeader == Optional(Phrase({"Visualization"}), " Code")

NextDifficulty == Phrase({"Difficulty"})
NextStepByStep == Phrase({"Step-by-Step"})
NextFinalAnswer == Phrase({"Final Answer"})
NextVisualization == Phrase({"Visualization"})
EndOfText == {}
\* the literal alternatives ### Visualization|## Visualization of line 89
VisualizationLookahead == {<<"### Visualization">>, <<"## Visualization">>}

MatchesAt(alt, text, p) ==
    /\ p + Len(alt) - 1 <= Len(text)
    /\ \A k \in 1..Len(alt) : FoldCase(text[p + k - 1]) = alt[k]

\* The number of tokens the pattern takes at p (an optional word is taken
\* when it is there), 0 when it does not match at p.
MatchLen(pattern, text, p) ==
    LET lens == {Len(alt) : alt \in {a \in pattern : MatchesAt(a, text, p)}}
    IN IF lens = {} THEN 0 ELSE CHOOSE n \in lens : \A m \in lens : m <= n

Least(S) == CHOOSE n \in S : \A m \in S : n <= m

\* String.prototype.trim on a token sequence.
RECURSIVE TrimTokensStart(_)
TrimTokensStart(s) ==
    IF s # <<>> /\ Head(s) \in WhiteSpace THEN TrimTokensStart(Tail(s)) ELSE s
RECURSIVE TrimTokensEnd(_)
TrimTokensEnd(s) ==
    IF s # <<>> /\ s[Len(s)] \in WhiteSpace
    THEN TrimTokensEnd(SubSeq(s, 1, Len(s) - 1)) ELSE s
TrimTokens(s) == TrimTokensEnd(TrimTokensStart(s))

\* White space (the \\s* of line 89) from position p on.
RECURSIVE SkipSpace(_, _)
SkipSpace(text, p) ==
    IF p <= Len(text) /\ text[p] \in WhiteSpace THEN SkipSpace(text, p + 1) ELSE p

\* Heading lines of the vocabulary that are no section header.
StrayHeadings == {"### Step 1: Foo", "### Step 2: Bar", "## Notes"}
AllHeaders ==
    ProblemHeader \cup DifficultyHeader \cup SolutionHeader \cup FinalAnswerHeader
       \cup VisualizationHeader
IsHeading(tok) == tok \in StrayHeadings \/ \E alt \in AllHeaders : alt[1] = FoldCase(tok)

\* Mutant of extractSection: the capture stops at any heading line.
extractSectionAnyHeading(text, headerPattern, nextHeaderPattern) ==
    LET starts == {p \in 1..Len(text) : MatchLen(headerPattern, text, p) > 0}
    IN IF starts = {} THEN None
       ELSE LET p == Least(starts)
                from == SkipSpace(text, p + MatchLen(headerPattern, text, p))
                stops == {q \in from..Len(text) : IsHeading(text[q])} \cup {Len(text) + 1}
            IN Some(TrimTokens(SubSeq(text, from, Least(stops) - 1)))

\* extractSection (lines 88-92): the first match of
\*   header, white space, the shortest capture, then (looking ahead)
\*   nextHeader | $ | ### Visualization | ## Visualization
\* and its trimmed capture, or null.
extractSection(text, headerPattern, nextHeaderPattern) ==
    LET starts == {p \in 1..Len(text) : MatchLen(headerPattern, text, p) > 0}
    IN IF starts = {} THEN None
       ELSE LET p == Least(starts)
                from == SkipSpace(text, p + MatchLen(headerPattern, text, p))
                stops == {q \in from..Len(text) :
                             MatchLen(nextHeaderPattern \cup VisualizationLookahead, text, q) > 0}
                           \cup {Len(text) + 1}
            IN Some(TrimTokens(SubSeq(text, from, Least(stops) - 1)))

IsFence(tok) == tok \in Fences

\* cleanCode (lines 93-96): null for null and for the empty string.
cleanCode(code) ==
    IF code = None \/ code[1] = <<>> THEN None
    ELSE Some(TrimTokens(SelectSeq(code[1], LAMBDA tok : ~IsFence(tok))))

\* lines 98-105
parseGeminiResponse(text) ==
    [problem |-> extractSection(text, ProblemHeader, NextDifficulty),
     difficultyAnalysis |-> extractSection(text, DifficultyHeader, NextStepByStep),
     solution |-> extractSection(text, SolutionHeader, NextFinalAnswer),
     finalResult |-> extractSection(text, FinalAnswerHeader, NextVisualization),
     pythonCode |-> cleanCode(extractSection(text, VisualizationHeader, EndOfText)),
     rawResponse |-> Some(text)]

\* ---- the texts parseGeminiResponse is applied to ----
ProblemBlocks ==
    { <<"## Generated Problem", "\n", "### Problem Statement", "\n", "Find x", "\n", "\n">>,
      <<"### Problem Statement", "\n", "Find x", "\n">> }
DifficultyBlocks ==
    { <<"## Difficulty", " Analysis", "\n", "hard", "\n", "\n">>,
      <<"### Difficulty", "\n", "hard", "\n">> }
SolutionBlocks ==
    { <<"## Step-by-Step", " Solution", "\n", "### Step 1: Foo", "\n", "x = 6 * 7", "\n",
        "### Step 2: Bar", "\n", "done", "\n", "\n">>,
      <<"## Comprehensive Solution", "\n", "### Step 1: Foo", "\n", "x = 6 * 7", "\n">> }
FinalAnswerBlocks ==
    { <<"### Final Answer", "\n", "$$", "\n", "\\boxed{42}", "\n", "$$", "\n", "\n">>,
      <<"### final answer", "\n", "\\boxed{42}", "\n">> }
VisualizationBlocks ==
    { <<"## Visualization", " Code", " ", "(Python)", "\n",
        "<fence>python", "\n", "plot()", "\n", "<fence>", "\n">>,
      <<"### Visualization", "\n", "plot()", "\n">>,
      <<"## Visualization", "\n">> }
OtherBlocks == { <<"## Notes", "\n", "remark", "\n">> }

\* The response template of ARCHITECT_INSTRUCTION (gemini.ts 33-62), filled in.
Template ==
    <<"## Generated Problem", "\n", "### Problem Statement", "\n", "Find x", "\n", "\n">>
    \o <<"## Difficulty", " Analysis", "\n", "hard", "\n", "\n">>
    \o <<"## Step-by-Step", " Solution", "\n", "### Step 1: Foo", "\n", "x = 6 * 7", "\n",
         "### Step 2: Bar", "\n", "done", "\n", "\n">>
    \o <<"### Final Answer", "\n", "$$", "\n", "\\boxed{42}", "\n", "$$", "\n", "\n">>
    \o <<"## Visualization", " Code", " ", "(Python)", "\n",
         "<fence>python", "\n", "plot()", "\n", "<fence>", "\n">>

\* The block b is appended to the text.
AddBlock(b) ==
    /\ parsed = None
    /\ doc' = doc \o b
    /\ nBlocks' = nBlocks + 1
    /\ UNCHANGED <<parsed, now, inflight, retryVars, runVars, cacheVars, viewVars, appVars>>

AddProblem ==
    /\ nBlocks < MaxBlocks
    /\ \E b \in ProblemBlocks : AddBlock(b)

AddDifficulty ==
    /\ nBlocks < MaxBlocks
    /\ \E b \in DifficultyBlocks : AddBlock(b)

AddSolution ==
    /\ nBlocks < MaxBlocks
    /\ \E b \in SolutionBlocks : AddBlock(b)

AddFinalAnswer ==
    /\ nBlocks < MaxBlocks
    /\ \E b \in FinalAnswerBlocks : AddBlock(b)

AddVisualization ==
    /\ nBlocks < MaxBlocks
    /\ \E b \in VisualizationBlocks : AddBlock(b)

AddOther ==
    /\ nBlocks < MaxBlocks
    /\ \E b \in OtherBlocks : AddBlock(b)

AddTemplate ==
    /\ nBlocks < MaxBlocks
    /\ \E b \in {Template} : AddBlock(b)


\* parseGeminiResponse(text) is called.
Parse ==
    /\ parsed = None
    /\ parsed' = Some(parseGeminiResponse(doc))
    /\ UNCHANGED <<doc, nBlocks, now, inflight, retryVars, runVars, cacheVars, viewVars, appVars>>

\* -------------------------------------------------------------------------
\* handleGenerate  (src/App.tsx 108-173)
\* -------------------------------------------------------------------------
\* The tokens of a reply text.
Lex(s) == IF s = TemplateReply THEN Template ELSE IF s = "" THEN <<>> ELSE <<s>>

\* A string that is neither null, undefined nor empty.
Truthy(opt) == opt # None /\ opt[1] # ""

\* parseGeminiResponse on every reply text of the model.
ParsedReply ==
    [s \in {t[1] : t \in ReplyTexts \ {None}} |-> parseGeminiResponse(Lex(s))]

\* Lines 132-150: finalData, from the mode and the result of the run.
FinalData(mode, rd) ==
    LET base == [mode |-> mode, problem |-> None, difficultyAnalysis |-> None,
                 solution |-> None, finalResult |-> None, pythonCode |-> None,
                 rawResponse |-> IF Truthy(rd.rawResponse) THEN rd.rawResponse ELSE None,
                 analystReport |-> rd.analystReport, debugPrompt |-> rd.debugPrompt,
                 debugMetrics |-> rd.debugMetrics,
                 flashcards |-> rd.flashcards, quiz |-> rd.quiz]
    IN IF mode = "PROBLEM" /\ Truthy(rd.rawResponse)
       THEN LET prs == ParsedReply[rd.rawResponse[1]]
            IN [base EXCEPT !.problem = prs.problem,
                            !.difficultyAnalysis = prs.difficultyAnalysis,
                            !.solution = prs.solution,
                            !.finalResult = prs.finalResult,
                            !.pythonCode = prs.pythonCode]
       ELSE base

\* topic.trim() on the topics of the model.
TrimText(s) == IF s = "  " THEN "" ELSE s

\* Lines 156-161: the HistoryItem of a finished run.  The id and the
\* timestamp (the clock and a random suffix) are left out.
HistoryItem(topic, mode, fd) ==
    [topic |-> IF TrimText(topic) = "" THEN "Untitled " \o mode ELSE TrimText(topic),
     data |-> fd]

\* Lines 109-114: the state updates handleGenerate starts with.
SetGenerating ==
    /\ status' = "GENERATING_PROBLEM"
    /\ appError' = None
    /\ problemData' = None
    /\ generatedImage' = None
    /\ activeTab' = "calculo"

\* Mutant of Succeed: the finished run is not saved to the history.
SucceedUnsaved(r, fd) ==
    /\ problemData' = Some(fd)
    /\ status' = "SUCCESS"
    /\ history' = history

\* Lines 152-161: the finalData fd of the request r is displayed and saved.
Succeed(r, fd) ==
    /\ problemData' = Some(fd)
    /\ status' = "SUCCESS"
    /\ history' = <<HistoryItem(r.topic, r.mode, fd)>> \o history

FailedToGenerate == "Failed to generate content."

\* Mutant of Fail: the error is shown and the status is left as it is.
FailKeepStatus(e) ==
    /\ appError' = Some(OrElse(e, FailedToGenerate))
    /\ status' = status

\* Lines 167-171: generateMathContent rejected with an error of message e.
Fail(e) ==
    /\ appError' = Some(OrElse(e, FailedToGenerate))
    /\ status' = "ERROR"

\* Lines 108-117, one run followed call by call: the form is submitted (it
\* is shown while the status is IDLE or ERROR) and generateMathContent is
\* called with a progress callback.
HandleGenerate ==
    /\ status \in {"IDLE", "ERROR"}
    /\ activeTab = "calculo"
    /\ gpc = "none" /\ rpc = "idle"
    /\ \E r \in Requests :
          /\ r.hasProgress
          /\ req' = Some(r)
    /\ gpc' = "start"
    /\ SetGenerating
    /\ UNCHANGED <<now, inflight, retryVars, progress, analystOut, analystSummary,
                   startTime, resultData, runErr, cacheVars, parserVars,
                   history, pendingVars, formVars, quizVars>>

\* Lines 132-165: the run resolved.
HandleSuccess ==
    /\ status = "GENERATING_PROBLEM"
    /\ gpc = "resolved"
    /\ Succeed(req[1], FinalData(req[1].mode, resultData[1]))
    /\ UNCHANGED <<now, inflight, retryVars, runVars, cacheVars, parserVars, appError,
                   generatedImage, activeTab, pendingVars, formVars, quizVars>>

\* Lines 167-172: the run rejected.
HandleFailure ==
    /\ status = "GENERATING_PROBLEM"
    /\ gpc = "rejected"
    /\ Fail(runErr)
    /\ UNCHANGED <<now, inflight, retryVars, runVars, cacheVars, parserVars, problemData,
                   uiVars, pendingVars, formVars, quizVars>>

\* -------------------------------------------------------------------------
\* Specification: one withRetry call, stand-alone or inside one run
\* -------------------------------------------------------------------------
InitRetryVars ==
    /\ rpc = "idle"
    /\ maxRetries = DefaultMaxRetries
    /\ delay = DefaultDelay
    /\ i = 0
    /\ calls = 0
    /\ attempts = <<>>
    /\ sleeps = <<>>
    /\ rval = None
    /\ rerr = None

InitRunVars ==
    /\ progress = <<>>
    /\ analystOut = None
    /\ analystSummary = None
    /\ startTime = 0
    /\ resultData = None
    /\ runErr = None

InitAppVars ==
    /\ status = "IDLE"
    /\ appError = None
    /\ problemData = None

InitParserVars ==
    /\ doc = <<>>
    /\ nBlocks = 0
    /\ parsed = None

InitUiVars ==
    /\ history = <<>>
    /\ generatedImage = None
    /\ activeTab = "calculo"
    /\ runs = <<>>
    /\ images = <<>>

InitFormVars ==
    /\ files = 0
    /\ reading = <<>>

InitQuizVars ==
    /\ quizData = <<>>
    /\ currentQuestionIndex = 0
    /\ selectedAnswers = <<>>
    /\ showResults = FALSE

InitCacheVars ==
    /\ cache = <<>>
    /\ lastOp = [op |-> "new", prior |-> "nothing", ret |-> <<>>]
    /\ shadow = <<>>
    /\ nSets = 0
    /\ nTicks = 0

Init ==
    /\ now = 0
    /\ inflight = {}
    /\ InitRetryVars
    /\ InitRunVars
    /\ InitCacheVars
    /\ InitAppVars
    /\ InitParserVars
    /\ InitUiVars
    /\ InitFormVars
    /\ InitQuizVars
    /\ \/ gpc = "none" /\ req = None
       \/ gpc = "start" /\ req \in {Some(r) : r \in Requests}

Next ==
    \/ Invoke \/ FnResolve \/ FnThrow \/ TimerFire
    \/ RunStart \/ AnalystResolve \/ AnalystThrow \/ GenResolve \/ GenThrow
    \/ HandleGenerate \/ HandleSuccess \/ HandleFailure

Spec == Init /\ [][Next]_vars

\* -------------------------------------------------------------------------
\* ProblemCache  (src/utils/retry.ts 23-94)
\* -------------------------------------------------------------------------
CACHE_DURATION == 1000 * 60 * 60

\* The character U+00DF (sharp s), written with ASCII letters.
Eszett == "sz"

\* The (topic, difficulty, mode) arguments the cache is called with.  A topic
\* is the sequence of its characters.  The first two are spellings of one
\* request; each of the others differs from the first in one component.
CacheArgs ==
    { [topic |-> <<"x">>,           difficulty |-> 1, mode |-> "PROBLEM"],
      [topic |-> <<" ", "X", " ">>, difficulty |-> 1, mode |-> "PROBLEM"],
      [topic |-> <<Eszett>>,        difficulty |-> 1, mode |-> "PROBLEM"],
      [topic |-> <<"x">>,           difficulty |-> 2, mode |-> "PROBLEM"],
      [topic |-> <<"x">>,           difficulty |-> 1, mode |-> "QUIZ"] }
CacheData == {"d1", "d2"}
\* Clock advances: 1 min, 2 min, 59 min.
ClockSteps == {1000 * 60, 1000 * 60 * 2, 1000 * 60 * 59}

\* String.prototype.toLowerCase, character by character: sharp s is a
\* lower-case letter already.
LowerChar(c) == CASE c = "X" -> "x" [] c = "S" -> "s" [] OTHER -> c
ToLowerCase(s) == [k \in 1..Len(s) |-> LowerChar(s[k])]

\* String.prototype.trim: white space is removed at both ends.
IsSpace(c) == c \in {" ", "\t", "\n"}
RECURSIVE TrimStart(_)
TrimStart(s) == IF s # <<>> /\ IsSpace(Head(s)) THEN TrimStart(Tail(s)) ELSE s
RECURSIVE TrimEnd(_)
TrimEnd(s) ==
    IF s # <<>> /\ IsSpace(s[Len(s)]) THEN TrimEnd(SubSeq(s, 1, Len(s) - 1)) ELSE s
Trim(s) == TrimEnd(TrimStart(s))

\* The characters of s as one string.
RECURSIVE Join(_)
Join(s) == IF s = <<>> THEN "" ELSE Head(s) \o Join(Tail(s))

\* Mutant of generateKey: the topic is not trimmed.
generateKeyNoTrim(topic, difficulty, mode) ==
    mode \o ":" \o ToString(difficulty) \o ":" \o Join(ToLowerCase(topic))

\* `${mode}:${difficulty}:${topic.toLowerCase().trim()}`  (line 35)
generateKey(topic, difficulty, mode) ==
    mode \o ":" \o ToString(difficulty) \o ":" \o Join(Trim(ToLowerCase(topic)))

\* Map.prototype.set and Map.prototype.delete on a map held as a function.
MapSet(c, k, e) == [x \in (DOMAIN c) \cup {k} |-> IF x = k THEN e ELSE c[x]]
MapDelete(c, k) == [x \in (DOMAIN c) \ {k} |-> c[x]]

\* Mutant of Expired: >= instead of >.
ExpiredAtTTL(entry, t) == t - entry.timestamp >= CACHE_DURATION

\* Date.now() - entry.timestamp > CACHE_DURATION  (lines 48 and 74)
Expired(entry, t) == t - entry.timestamp > CACHE_DURATION

\* get (lines 41-54): what it returns and the map it leaves, on map c at time t.
GetRet(c, t, key) ==
    IF key \notin DOMAIN c THEN None
    ELSE IF Expired(c[key], t) THEN None
    ELSE Some(c[key].data)

\* Mutant of GetMap: an expired entry is reported absent and is not deleted.
GetMapNoEvict(c, t, key) == c

GetMap(c, t, key) ==
    IF key \in DOMAIN c /\ Expired(c[key], t) THEN MapDelete(c, key) ELSE c

\* Mutant of SetMap: an entry that exists is kept (insert only).
SetMapIfAbsent(c, t, key, data) ==
    IF key \in DOMAIN c THEN c
    ELSE MapSet(c, key, [key |-> key, data |-> data, timestamp |-> t])

\* set (lines 59-66)
SetMap(c, t, key, data) == MapSet(c, key, [key |-> key, data |-> data, timestamp |-> t])

\* cleanup (lines 71-78): the loop over the entries still to visit.
RECURSIVE CleanupLoop(_, _, _)
CleanupLoop(c, t, todo) ==
    IF todo = {} THEN c
    ELSE LET key == CHOOSE k \in todo : TRUE
         IN CleanupLoop(IF Expired(c[key], t) THEN MapDelete(c, key) ELSE c,
                        t, todo \ {key})
CleanupMap(c, t) == CleanupLoop(c, t, DOMAIN c)

\* The request behind a key: mode, difficulty, normalized topic.
ClassOf(a) == <<a.mode, a.difficulty, Trim(ToLowerCase(a.topic))>>
ClassTable == [a \in CacheArgs |-> ClassOf(a)]
Class(a) == ClassTable[a]
\* The key of every argument triple of the model, by generateKey.
KeyTable == [a \in CacheArgs |-> generateKey(a.topic, a.difficulty, a.mode)]
KeyOf(a) == KeyTable[a]

\* What was stored under key before an operation.
Prior(c, t, key) ==
    IF key \notin DOMAIN c THEN "nothing"
    ELSE IF Expired(c[key], t) THEN "expired" ELSE "live"

\* What an operation leaves in lastOp: its name, what it found under its key
\* (cleanup: whether it found an expired entry) and what it returned.
Op(name, prior, ret) == [op |-> name, prior |-> prior, ret |-> ret]

CacheGet ==
    \E a \in CacheArgs :
        /\ cache' = GetMap(cache, now, KeyOf(a))
        /\ lastOp' = Op("get", Prior(cache, now, KeyOf(a)), GetRet(cache, now, KeyOf(a)))
        /\ UNCHANGED <<now, shadow, nSets, nTicks, inflight, viewVars, retryVars, runVars, appVars, parserVars>>

CacheSet ==
    /\ nSets < MaxSets
    /\ \E a \in CacheArgs, data \in CacheData :
          /\ cache' = SetMap(cache, now, KeyOf(a), data)
          /\ lastOp' = Op("set", Prior(cache, now, KeyOf(a)), None)
          /\ shadow' = MapSet(shadow, Class(a),
                              [data |-> data, time |-> now, topic |-> a.topic])
          /\ nSets' = nSets + 1
          /\ UNCHANGED <<now, nTicks, inflight, viewVars, retryVars, runVars, appVars, parserVars>>

\* cleanup(), from the 5-minute interval timer (line 93) or any other caller.
CacheCleanup ==
    /\ cache' = CleanupMap(cache, now)
    /\ lastOp' = Op("cleanup", IF CleanupMap(cache, now) = cache THEN "nothing" ELSE "expired",
                     None)
    /\ UNCHANGED <<now, shadow, nSets, nTicks, inflight, viewVars, retryVars, runVars, appVars, parserVars>>

\* clear (lines 83-85)
CacheClear ==
    /\ cache' = <<>>
    /\ lastOp' = Op("clear", "nothing", None)
    /\ shadow' = <<>>
    /\ UNCHANGED <<now, nSets, nTicks, inflight, viewVars, retryVars, runVars, appVars, parserVars>>

\* Time passes.
Tick ==
    /\ nTicks < MaxTicks
    /\ \E step \in ClockSteps : now' = now + step
    /\ nTicks' = nTicks + 1
    /\ lastOp' = Op("tick", "nothing", None)
    /\ UNCHANGED <<cache, shadow, nSets, inflight, viewVars, retryVars, runVars, appVars, parserVars>>

InitCache ==
    /\ now = 0
    /\ inflight = {}
    /\ InitRetryVars
    /\ InitRunVars
    /\ gpc = "none" /\ req = None
    /\ InitCacheVars
    /\ InitAppVars
    /\ InitParserVars
    /\ InitUiVars
    /\ InitFormVars
    /\ InitQuizVars

NextCache == CacheGet \/ CacheSet \/ CacheCleanup \/ CacheClear \/ Tick

SpecCache == InitCache /\ [][NextCache]_vars

InitParser ==
    /\ now = 0
    /\ inflight = {}
    /\ InitRetryVars
    /\ InitRunVars
    /\ gpc = "none" /\ req = None
    /\ InitCacheVars
    /\ InitAppVars
    /\ InitParserVars
    /\ InitUiVars
    /\ InitFormVars
    /\ InitQuizVars

NextParser ==
    \/ AddProblem \/ AddDifficulty \/ AddSolution \/ AddFinalAnswer
    \/ AddVisualization \/ AddOther \/ AddTemplate \/ Parse

SpecParser == InitParser /\ [][NextParser]_vars

\* =========================================================================
\* Properties of withRetry and of the run, checked under Spec
\* =========================================================================
Failed(k) == ~attempts[k].ok
AllFailed == \A k \in 1..Len(attempts) : Failed(k)
LastOk == Len(attempts) >= 1 /\ attempts[Len(attempts)].ok
NumFailed == Cardinality({k \in 1..Len(attempts) : Failed(k)})
Min(a, b) == IF a <= b THEN a ELSE b

\* C1: with maxRetries >= 1, fn is invoked at most maxRetries times, and
\* withRetry rejects exactly when maxRetries attempts have all failed, with
\* the very error the last attempt threw.
C1_RetryBound ==
    (rpc # "idle" /\ maxRetries >= 1) =>
        /\ calls <= maxRetries
        /\ Len(attempts) <= calls
        /\ (rpc = "rejected" <=> (Len(attempts) = maxRetries /\ AllFailed))
        /\ (rpc = "rejected" =>
               /\ calls = maxRetries
               /\ rerr = attempts[Len(attempts)].err
               /\ rerr # Some(MaxRetriesError))

\* Three attempts failed, the first and the last with different errors.
C1_Witness ==
    /\ rpc = "rejected" /\ maxRetries = 3 /\ calls = 3
    /\ attempts[1].err = Some("E1") /\ attempts[3].err = Some("E2")
    /\ rerr = Some("E2")

\* The payload v of a resolved backend call deserializes in mode m
\* (nothing is deserialized in PROBLEM mode).
Deserializes(m, v) == m = "PROBLEM" \/ JsonValid(OrElse(v.text, "[]"))

\* The run's result res carries the payload v.
Carries(res, m, v) ==
    /\ res.debugMetrics[1].inputTokens =
          (IF v.usage = None THEN 0 ELSE v.usage[1].promptTokenCount)
    /\ CASE m = "PROBLEM" -> res.rawResponse = v.text
         [] m = "FLASHCARDS" -> res.flashcards = Some(JsonParse(OrElse(v.text, "[]")))
         [] OTHER -> res.quiz = Some(JsonParse(OrElse(v.text, "[]")))

\* What C2 says of withRetry itself: k failures and then a success resolve
\* withRetry with that value after exactly k+1 invocations.
RetryStopsAtSuccess ==
    /\ LastOk <=> rpc = "resolved"
    /\ rpc = "resolved" =>
          /\ calls = Len(attempts)
          /\ calls <= maxRetries
          /\ \A k \in 1..(calls - 1) : Failed(k)
          /\ rval = attempts[calls].val
          /\ inflight = {}

C3_Backoff ==
    (rpc # "idle" /\ maxRetries >= 1) =>
        /\ \A k \in 1..Len(sleeps) : sleeps[k] = delay * Pow2(k - 1)
        /\ Len(sleeps) = Min(NumFailed, maxRetries - 1)
        /\ (rpc = "rejected" => Len(sleeps) = maxRetries - 1)
        /\ (maxRetries = 3 /\ delay = 1000 /\ Len(attempts) = 3) =>
              (sleeps = <<1000, 2000>> /\ SumSeq(sleeps) = 3000)

\* A run that failed twice and then succeeded, and waited 1000 then 2000.
C3_Witness ==
    /\ gpc = "resolved" /\ Len(attempts) = 3
    /\ sleeps = <<1000, 2000>>

AnalystThrew == analystOut # None /\ ~analystOut[1].ok

\* C8: when the analyst backend call throws, the summary is the fixed
\* fallback string, the run goes on to the generator stage with it, and the
\* run never rejects with the analyst's error.
C8_AnalystDegrades ==
    AnalystThrew =>
        /\ analystSummary = Some(AnalystFallback)
        /\ gpc \in {"generating", "resolved", "rejected"}
        /\ calls >= 1
        /\ (gpc = "resolved" =>
               /\ resultData[1].analystReport = Some(AnalystFallback)
               /\ resultData[1].debugPrompt[1].summary = AnalystFallback)
        /\ (gpc = "rejected" =>
               /\ runErr # analystOut[1].err
               /\ \/ runErr = Some(SyntaxError) /\ LastOk
                  \/ rpc = "rejected" /\ runErr = attempts[Len(attempts)].err)

\* The analyst call threw and the run resolved all the same.
C8_Witness ==
    /\ AnalystThrew /\ gpc = "resolved"
    /\ resultData[1].analystReport = Some(AnalystFallback)

\* C9: in a run at most one backend call is in flight; a generator call is
\* issued only once the analyst summary is there and the analyst call is no
\* longer in flight; attempt k+1 is issued only after attempts 1..k have
\* failed and their backoff waits have elapsed.
C9_StagesInOrder ==
    gpc # "none" =>
        /\ Cardinality(inflight) <= 1
        /\ (gpc = "analyst" <=> AnalystCall \in inflight)
        /\ (calls >= 1 => analystSummary # None)
        /\ (gpc = "analyst" => calls = 0)
        /\ (rpc = "awaitFn" =>
               /\ inflight = {FnCall(i)}
               /\ calls = i + 1
               /\ Len(attempts) = i /\ AllFailed
               /\ Len(sleeps) = i
               /\ now - startTime >= SumSeq(sleeps))
        /\ (rpc = "sleep" => inflight = {})

\* The third generator call of a run is in flight, after an analyst call.
C9_Witness ==
    /\ gpc = "generating" /\ rpc = "awaitFn" /\ i = 2
    /\ analystOut # None
    /\ inflight = {FnCall(2)}

\* C10: while a generator call of a run is in flight, onProgress has been
\* called with the exact prompt of the second pass.
C10_PromptNotified ==
    (gpc = "generating" /\ rpc = "awaitFn" /\ req[1].hasProgress) =>
        \E k \in 1..Len(progress) :
            progress[k].debugPrompt = Some(PromptOf(req[1], analystSummary[1]))

Settled == gpc \in {"resolved", "rejected"}

\* What the analyst stage came to: the no-context string when no call was
\* made, the reply's text (or the fixed string for an empty text) when the
\* call resolved, the fallback string when it threw.
SummaryByOutcome ==
    IF analystOut = None THEN NoContextSummary
    ELSE IF ~analystOut[1].ok THEN AnalystFallback
    ELSE IF analystOut[1].text[1] = "" THEN AnalysisFailed ELSE analystOut[1].text[1]

\* C11: with a callback, the notifications of a run are: the analyst model
\* identifier, present from the moment the analyst call is issued; then the
\* analyst summary with the identifier of the model that runs next, present
\* from the moment the first generator call is issued; nothing else, and
\* nothing once the run has settled.  Without a callback there are none.
C11_ProgressOrder ==
    /\ [](gpc # "none" =>
            LET r == req[1]
                first == [model |-> Some("gemini-2.5-flash (Analyst)"),
                          analystReport |-> None, debugPrompt |-> None]
                second == [model |-> Some(IF r.mode = "PROBLEM" THEN "gemini-3-pro-preview"
                                          ELSE "gemini-2.5-flash"),
                           analystReport |-> Some(SummaryByOutcome), debugPrompt |-> None]
            IN IF ~r.hasProgress THEN progress = <<>>
               ELSE /\ gpc = "start" => progress = <<>>
                    /\ gpc = "analyst" => progress = <<first>> /\ calls = 0
                    /\ (gpc = "generating" \/ Settled) => progress = <<first, second>>
                    /\ AnalystCall \in inflight => progress = <<first>>
                    /\ calls >= 1 => Len(progress) = 2)
    /\ [][Settled => progress' = progress]_vars
    /\ [][(gpc # "none" /\ req[1].hasProgress) =>
            /\ (AnalystCall \in inflight' /\ AnalystCall \notin inflight) =>
                   Len(progress) = 0 /\ Len(progress') = 1
            /\ (calls = 0 /\ calls' = 1) => Len(progress') = 2 /\ AnalystCall \notin inflight'
            /\ calls >= 1 => progress' = progress]_vars

\* A PROBLEM run with a callback and an analyst call has resolved after two
\* notifications.
C11_Witness ==
    /\ gpc = "resolved" /\ req[1].hasProgress /\ req[1].mode = "PROBLEM"
    /\ analystOut # None /\ analystOut[1].ok
    /\ Len(progress) = 2
    /\ progress[2].model = Some("gemini-3-pro-preview")
    /\ status = "GENERATING_PROBLEM"

\* The content of the requested mode is there.
HasContent(res) ==
    CASE res.mode = "PROBLEM" -> res.rawResponse # None
      [] res.mode = "FLASHCARDS" -> res.flashcards # None
      [] OTHER -> res.quiz # None

\* C12: a run that has settled either resolved with a complete result (the
\* content of the requested mode, the analyst summary, the prompt and the
\* metrics) or rejected with an error and no result; when all three
\* generator attempts failed it rejected with the last backend error.
C12_AllOrNothing ==
    gpc # "none" =>
        /\ gpc = "resolved" =>
              /\ runErr = None /\ resultData # None
              /\ resultData[1].mode = req[1].mode
              /\ HasContent(resultData[1])
              /\ resultData[1].analystReport # None
              /\ resultData[1].debugPrompt # None
              /\ resultData[1].debugMetrics # None
        /\ gpc = "rejected" => resultData = None /\ runErr # None
        /\ (Len(attempts) = 3 /\ AllFailed) =>
              gpc = "rejected" /\ runErr = attempts[3].err /\ runErr[1] \in Errors

\* The last generator call of a FLASHCARDS or QUIZ run succeeded with a text
\* that is no JSON.
MalformedReply ==
    /\ gpc # "none" /\ req[1].mode \in {"FLASHCARDS", "QUIZ"}
    /\ LastOk
    /\ attempts[Len(attempts)].val[1].text \in {Some("not json"), Some(TemplateReply)}

Populated(res) ==
    {m \in Modes : CASE m = "PROBLEM" -> res.rawResponse # None
                     [] m = "FLASHCARDS" -> res.flashcards # None
                     [] OTHER -> res.quiz # None}

\* C14: the result a run resolved with, and the finalData handleGenerate
\* makes of it, carry the content of exactly one mode, their own; a
\* FLASHCARDS or QUIZ finalData has no problem field and no raw response.
C14_ModeExclusive ==
    /\ gpc = "resolved" => Populated(resultData[1]) = {req[1].mode}
    /\ status = "SUCCESS" =>
          LET fd == problemData[1]
          IN /\ fd.mode = req[1].mode
             /\ Populated(fd) = {fd.mode}
             /\ fd.mode # "PROBLEM" =>
                   /\ fd.problem = None /\ fd.difficultyAnalysis = None
                   /\ fd.solution = None /\ fd.finalResult = None
                   /\ fd.pythonCode = None /\ fd.rawResponse = None

WellFormedQuiz(quiz) ==
    /\ Len(quiz) = 5
    /\ \A k \in 1..Len(quiz) :
          Len(quiz[k].options) = 4 /\ quiz[k].correctAnswer \in 0..3

\* C15: the quiz of a resolved QUIZ run, and of the finalData made of it,
\* has exactly 5 questions, each with exactly 4 options and a correctAnswer
\* in 0..3.
C15_QuizShape ==
    /\ (gpc = "resolved" /\ req[1].mode = "QUIZ") =>
          resultData[1].quiz # None /\ WellFormedQuiz(resultData[1].quiz[1])
    /\ (status = "SUCCESS" /\ req[1].mode = "QUIZ") =>
          problemData[1].quiz # None /\ WellFormedQuiz(problemData[1].quiz[1])

\* =========================================================================
\* Properties of ProblemCache, checked under SpecCache
\* =========================================================================
Minute == 1000 * 60
Age(entry) == now - entry.timestamp

\* What get(a) must return by the history of the cache: the data of the
\* latest set under an equivalent request since the last clear, unless that
\* set is more than an hour old.
Expected(a) ==
    IF Class(a) \notin DOMAIN shadow THEN None
    ELSE IF now - shadow[Class(a)].time > 60 * Minute THEN None
    ELSE Some(shadow[Class(a)].data)

\* C4: get returns null when there is no entry or the entry is older than
\* one hour, and then the entry is gone afterwards; otherwise it returns the
\* stored data and leaves the map alone.  Hence get never returns data set
\* more than an hour ago: what was set at T is returned up to T+60min and
\* absent after.
C4_GetHonoursTTL ==
    /\ \A a \in CacheArgs :
          LET key == KeyOf(a)
              ret == GetRet(cache, now, key)
              after == GetMap(cache, now, key)
          IN /\ IF key \notin DOMAIN cache THEN ret = None /\ after = cache
                ELSE IF Age(cache[key]) > 60 * Minute
                THEN ret = None /\ key \notin DOMAIN after
                     /\ \A k \in DOMAIN cache \ {key} : k \in DOMAIN after /\ after[k] = cache[k]
                ELSE ret = Some(cache[key].data) /\ after = cache
             /\ ret = Expected(a)
    /\ lastOp.op = "get" => (lastOp.ret # None <=> lastOp.prior = "live")

\* A get 61 minutes after the only set found the entry expired and evicted it.
C4_Witness ==
    /\ lastOp.op = "get" /\ lastOp.prior = "expired" /\ lastOp.ret = None
    /\ nSets = 1 /\ cache = <<>>
    /\ \E c \in DOMAIN shadow : now - shadow[c].time = 61 * Minute

\* Other spellings of a topic: String.prototype.toUpperCase (the upper case
\* of sharp s is the two letters SS), and padding with white space.
UpperChar(c) ==
    CASE c = "x" -> <<"X">> [] c = "s" -> <<"S">> [] c = Eszett -> <<"S", "S">>
      [] OTHER -> <<c>>
RECURSIVE ToUpperCase(_)
ToUpperCase(s) == IF s = <<>> THEN <<>> ELSE UpperChar(Head(s)) \o ToUpperCase(Tail(s))
Padded(s) == <<" ">> \o s \o <<"\t", " ">>

\* Upper-casing t is a change of letter case that lower-casing undoes.
CaseFolds(t) == ToLowerCase(ToUpperCase(t)) = ToLowerCase(t)

\* get under every request that was set within the hour, spelled differently:
\* upper-cased (when Fold(t)) and padded.
SpellingsHit(Fold(_)) ==
    \A c \in DOMAIN shadow :
        LET t == shadow[c].topic
            hit == Some(shadow[c].data)
        IN now - shadow[c].time <= 60 * Minute =>
              /\ Fold(t) => GetRet(cache, now, generateKey(ToUpperCase(t), c[2], c[1])) = hit
              /\ GetRet(cache, now, generateKey(Padded(t), c[2], c[1])) = hit

Always(t) == TRUE

\* C5 as stated: the key is unchanged by any change of the topic's letter
\* case, so a value set under a topic is returned under its upper-casing.
C5_Original == SpellingsHit(Always)

\* The keys of the requests of the model: equal for the spellings of one
\* request, different for different requests.
KeysAgree ==
    \A a \in CacheArgs :
        /\ CaseFolds(a.topic) =>
              generateKey(ToUpperCase(a.topic), a.difficulty, a.mode) = KeyOf(a)
        /\ generateKey(Padded(a.topic), a.difficulty, a.mode) = KeyOf(a)
        /\ \A b \in CacheArgs : (KeyOf(a) = KeyOf(b)) <=> (Class(a) = Class(b))

\* C5, amended: the key does not depend on white space around the topic,
\* nor on its letter case when lower-casing undoes the change of case; two
\* requests have the same key exactly when mode, difficulty and normalized
\* topic agree; and so get returns what was set under an equivalent request
\* and nothing else.
C5_KeyDeterminism ==
    /\ KeysAgree
    /\ SpellingsHit(CaseFolds)
    /\ \A c \in DOMAIN shadow :
          \A a \in CacheArgs :
              LET ret == GetRet(cache, now, KeyOf(a))
              IN IF Class(a) = c
                 THEN now - shadow[c].time <= 60 * Minute => ret = Some(shadow[c].data)
                 ELSE Cardinality(DOMAIN shadow) = 1 => ret = None

\* "d1" was set under the topic " X " and a get has returned it; get("x")
\* returns it too.
C5_Witness ==
    /\ lastOp.op = "get" /\ lastOp.ret = Some("d1")
    /\ nSets = 1
    /\ \E c \in DOMAIN shadow : shadow[c].topic = <<" ", "X", " ">>
    /\ GetRet(cache, now, generateKey(<<"x">>, 1, "PROBLEM")) = Some("d1")

\* C6: a set stores its data under its key whatever was there before: a get
\* with the same arguments at the same time returns exactly that data, the
\* entry's timestamp is the time of the set, and every other entry is as
\* before.
C6_SetOverwrites ==
    [][nSets' = nSets + 1 =>
          \E a \in CacheArgs, d \in CacheData :
              LET key == KeyOf(a)
              IN /\ Class(a) \in DOMAIN shadow'
                 /\ shadow'[Class(a)] = [data |-> d, time |-> now, topic |-> a.topic]
                 /\ lastOp'.prior = Prior(cache, now, key)
                 /\ now' = now
                 /\ key \in DOMAIN cache'
                 /\ cache'[key].timestamp = now
                 /\ cache'[key].data = d
                 /\ GetRet(cache', now', key) = Some(d)
                 /\ DOMAIN cache' = DOMAIN cache \cup {key}
                 /\ \A k \in DOMAIN cache \ {key} : cache'[k] = cache[k]
      ]_vars

\* The second set has replaced an expired entry: one entry, stamped now.
C6_Witness ==
    /\ lastOp.op = "set" /\ lastOp.prior = "expired"
    /\ nSets = 2
    /\ Cardinality(DOMAIN cache) = 1
    /\ \A k \in DOMAIN cache : cache[k].timestamp = now

\* C7: cleanup removes exactly the entries older than one hour and leaves
\* the others as they are; after it no expired entry remains and a second
\* cleanup at the same time changes nothing.
C7_CleanupSweeps ==
    [][lastOp'.op = "cleanup" =>
          /\ DOMAIN cache' = {k \in DOMAIN cache : now - cache[k].timestamp <= 60 * Minute}
          /\ \A k \in DOMAIN cache' : cache'[k] = cache[k]
          /\ \A k \in DOMAIN cache' : now' - cache'[k].timestamp <= 60 * Minute
          /\ CleanupMap(cache', now') = cache'
          /\ now' = now
      ]_vars

\* A cleanup removed an entry 61 minutes old and kept one 59 minutes old.
C7_Witness ==
    /\ lastOp.op = "cleanup" /\ lastOp.prior = "expired"
    /\ Cardinality(DOMAIN cache) = 1
    /\ \A k \in DOMAIN cache : Age(cache[k]) = 59 * Minute
    /\ \E c \in DOMAIN shadow : now - shadow[c].time = 61 * Minute

\* =========================================================================
\* Properties of parseGeminiResponse, checked under SpecParser
\* =========================================================================
\* The five sections and their header patterns.
Sections == {"problem", "difficultyAnalysis", "solution", "finalResult", "pythonCode"}
HeaderOf(sec) ==
    CASE sec = "problem" -> ProblemHeader
      [] sec = "difficultyAnalysis" -> DifficultyHeader
      [] sec = "solution" -> SolutionHeader
      [] sec = "finalResult" -> FinalAnswerHeader
      [] OTHER -> VisualizationHeader
OtherHeaders(sec) == UNION {HeaderOf(o) : o \in Sections \ {sec}}

HeaderAt(text, sec, p) == MatchLen(HeaderOf(sec), text, p) > 0
Occurs(text, sec) == \E p \in 1..Len(text) : HeaderAt(text, sec, p)

\* The section as the claim describes it: from the first header of sec to
\* the next header of another section or the end of the text, trimmed.
SectionBody(text, sec) ==
    LET p == Least({q \in 1..Len(text) : HeaderAt(text, sec, q)})
        from == SkipSpace(text, p + MatchLen(HeaderOf(sec), text, p))
        stops == {q \in from..Len(text) : MatchLen(OtherHeaders(sec), text, q) > 0}
                   \cup {Len(text) + 1}
    IN TrimTokens(SubSeq(text, from, Least(stops) - 1))

\* The field of a parse result by name; pythonCode before cleanCode is not
\* kept, so the body of the Visualization section is compared cleaned.
Field(res, sec) ==
    CASE sec = "problem" -> res.problem
      [] sec = "difficultyAnalysis" -> res.difficultyAnalysis
      [] sec = "solution" -> res.solution
      [] sec = "finalResult" -> res.finalResult
      [] OTHER -> res.pythonCode

Contains(s, tok) == \E k \in 1..Len(s) : s[k] = tok
ContainsHeader(s, pattern) == \E k \in 1..Len(s) : MatchLen(pattern, s, k) > 0

\* C16: every field is what lies between its section's header and the next
\* header of another section (or the end), trimmed, and contains no header
\* of another section.
C16_SectionBounds ==
    parsed # None =>
        \A sec \in Sections :
            Occurs(doc, sec) =>
                /\ Field(parsed[1], sec) =
                      (IF sec = "pythonCode" THEN cleanCode(Some(SectionBody(doc, sec)))
                       ELSE Some(SectionBody(doc, sec)))
                /\ Field(parsed[1], sec) # None =>
                      ~ContainsHeader(Field(parsed[1], sec)[1], OtherHeaders(sec))

IsPrefix(s, t) == Len(s) <= Len(t) /\ SubSeq(t, 1, Len(s)) = s

TemplateVisualization ==
    <<"## Visualization", " Code", " ", "(Python)", "\n",
      "<fence>python", "\n", "plot()", "\n", "<fence>", "\n">>

\* The text ends with the template's Visualization section, its only one.
EndsWithTemplateVisualization ==
    LET n == Len(TemplateVisualization)
    IN /\ Len(doc) >= n
       /\ SubSeq(doc, Len(doc) - n + 1, Len(doc)) = TemplateVisualization
       /\ \A p \in 1..(Len(doc) - n) : ~HeaderAt(doc, "pythonCode", p)

\* C19: for the template's Visualization section pythonCode is exactly the
\* source between the fences (no fence, no language tag, nothing of the
\* header line); without a Visualization section it is null.
C19_BareCode ==
    parsed # None =>
        /\ ~Occurs(doc, "pythonCode") => parsed[1].pythonCode = None
        /\ EndsWithTemplateVisualization =>
              /\ parsed[1].pythonCode = Some(<<"plot()">>)
              /\ \A tok \in Fences \cup {"(Python)", " Code"} :
                     ~Contains(parsed[1].pythonCode[1], tok)

HeaderPositions(text, sec) == {p \in 1..Len(text) : HeaderAt(text, sec, p)}

\* The headers of each section stand together: no header of another
\* section lies between two headers of the same section.
SectionsApart(text) ==
    \A sec \in Sections : \A p, q \in HeaderPositions(text, sec) :
        \A m \in p..q : MatchLen(OtherHeaders(sec), text, m) = 0

\* The text without the section sec: without everything from the first
\* header of sec up to the next header of another section.
Without(text, sec) ==
    LET p == Least(HeaderPositions(text, sec))
        stops == {q \in p..Len(text) : MatchLen(OtherHeaders(sec), text, q) > 0}
                   \cup {Len(text) + 1}
    IN SubSeq(text, 1, p - 1) \o SubSeq(text, Least(stops), Len(text))

\* C20: parseGeminiResponse returns for every text; a field whose header
\* does not occur is null; rawResponse is the text; and a missing section
\* leaves the other fields alone: the text without one of its sections
\* parses to null for that section and to the same values for the others.
C20_MissingSections ==
    parsed # None =>
        /\ parsed[1].rawResponse = Some(doc)
        /\ \A sec \in Sections : ~Occurs(doc, sec) => Field(parsed[1], sec) = None
        /\ SectionsApart(doc) =>
              \A sec \in Sections :
                  Occurs(doc, sec) =>
                      LET less == parseGeminiResponse(Without(doc, sec))
                      IN /\ Field(less, sec) = None
                         /\ \A o \in Sections \ {sec} : Field(less, o) = Field(parsed[1], o)

\* =========================================================================
\* Properties of parseGeminiResponse inside a run, checked under Spec
\* =========================================================================
Boxed42 == "\\boxed{42}"

\* A PROBLEM run launched by handleGenerate succeeded on the template.
TemplateRunDone ==
    /\ status = "SUCCESS" /\ req[1].mode = "PROBLEM"
    /\ resultData[1].rawResponse = Some(TemplateReply)

\* What parseGeminiResponse returns for the template.
TemplateParsed == parseGeminiResponse(Template)

\* C18: parsing the template gives a problem, a solution and a final
\* result, and the final result holds the boxed value of the text; so the
\* finalData of a PROBLEM run whose generator returned the template has
\* them too, with the boxed 42 in finalResult.
C18_TemplateParses ==
    /\ LET prs == TemplateParsed
       IN /\ prs.problem # None /\ prs.problem[1] # <<>>
          /\ prs.solution # None /\ prs.solution[1] # <<>>
          /\ prs.finalResult # None /\ Contains(prs.finalResult[1], Boxed42)
          /\ Contains(Template, Boxed42)
    /\ TemplateRunDone =>
          LET fd == problemData[1]
          IN /\ fd.problem # None /\ Contains(fd.problem[1], "Find x")
             /\ fd.solution # None /\ Contains(fd.solution[1], "x = 6 * 7")
             /\ fd.finalResult # None /\ Contains(fd.finalResult[1], Boxed42)
             /\ fd.rawResponse = Some(TemplateReply)

\* Such a run has ended with the Final Answer section as finalResult.
C18_Witness ==
    /\ TemplateRunDone
    /\ analystOut # None
    /\ problemData[1].finalResult = Some(<<"$$", "\n", Boxed42, "\n", "$$">>)

\* -------------------------------------------------------------------------
\* Difficulty instruction
\* -------------------------------------------------------------------------
\* The instruction carried by the prompt of a finished PROBLEM run.
InstructionSent == resultData[1].debugPrompt[1].instruction

\* C21: the prompt of a PROBLEM run carries the instruction of its level when
\* the difficulty is one of 1..5, and the level-3 instruction (with the same
\* domain annotation) for every other difficulty.
C21_DifficultyInstruction ==
    (gpc = "resolved" /\ req[1].mode = "PROBLEM") =>
        LET r == req[1]
            level == IF r.difficulty \in 1..5 THEN r.difficulty ELSE 3
        IN InstructionSent = Some(getDifficultyInstruction(level, r.topic, analystSummary[1]))

\* -------------------------------------------------------------------------
\* Generation and the cache
\* -------------------------------------------------------------------------
\* The characters of the topics of the model.
TopicChars(t) ==
    CASE t = "derivatives" -> <<"d", "e", "r", "i", "v", "a", "t", "i", "v", "e", "s">>
      [] t = "  " -> <<" ", " ">>
      [] OTHER -> <<>>

\* The cache key of a request.
RequestKey(r) == generateKey(TopicChars(r.topic), r.difficulty, r.mode)

\* C22: generated content is stored in the cache: once a generation has
\* resolved, a lookup under the key of its (topic, difficulty, mode) returns
\* the content, so that a second identical generation inside the TTL window
\* can be served without a backend call.
C22_GeneratedContentCached ==
    gpc = "resolved" => GetRet(cache, now, RequestKey(req[1])) # None

\* -------------------------------------------------------------------------
\* The App component  (src/App.tsx 24-221): its handlers, with
\* generateMathContent and generateProblemImage as calls that settle later
\* -------------------------------------------------------------------------
MaxRuns == 2             \* handleGenerate calls in flight at a time
MaxHistory == 3          \* history items
MaxImages == 2           \* handleGenerateImage calls in flight at a time

\* The arguments handleGenerate is called with.
AppRequests ==
    { [topic |-> "", files |-> <<>>, difficulty |-> 2, mode |-> "PROBLEM", hasProgress |-> TRUE],
      [topic |-> "derivatives", files |-> <<>>, difficulty |-> 2, mode |-> "FLASHCARDS", hasProgress |-> TRUE],
      [topic |-> "  ", files |-> <<>>, difficulty |-> 2, mode |-> "QUIZ", hasProgress |-> TRUE] }

\* The reply texts a run of the mode finishes with.
AppReplies(mode) ==
    CASE mode = "PROBLEM" -> {None, Some(TemplateReply)}
      [] mode = "FLASHCARDS" -> {Some("[c1]")}
      [] OTHER -> {Some(QuizReply)}

\* What generateMathContent resolves with (gemini.ts 302-335) for the
\* request r when the generator replied with the text t.
ResultOf(r, t) ==
    LET summary == IF r.topic = "" THEN NoContextSummary ELSE AnalystFallback
    IN [mode |-> r.mode, analystReport |-> Some(summary),
        rawResponse |-> IF r.mode = "PROBLEM" THEN t ELSE None,
        flashcards |-> IF r.mode = "FLASHCARDS" THEN Some(JsonParse(OrElse(t, "[]"))) ELSE None,
        quiz |-> IF r.mode = "QUIZ" THEN Some(JsonParse(OrElse(t, "[]"))) ELSE None,
        debugPrompt |-> Some(PromptOf(r, summary)),
        debugMetrics |-> Some([latencyMs |-> 1, inputTokens |-> 0, outputTokens |-> 0,
                               model |-> GeneratorModel(r.mode)])]
\* The finalData (lines 132-150) of the results a request can have.
AppResults ==
    [r \in AppRequests |-> {FinalData(r.mode, ResultOf(r, t)) : t \in AppReplies(r.mode)}]

\* The messages of the errors generateMathContent rejects with; None is an
\* error without a message.
AppErrors == {None, Some("E1")}

\* An item found in localStorage: a problem of an earlier session.
SavedItem ==
    [topic |-> "limits",
     data |-> [FinalData("PROBLEM", ResultOf(CHOOSE r \in AppRequests :
                                                 r.topic = "" /\ r.mode = "PROBLEM", None))
               EXCEPT !.problem = Some(<<"Old", " ", "problem">>)]]
SavedHistories == {<<>>, <<SavedItem>>}

\* generatedImage values; the url is "" (here <<>>) while loading.
Loading == [url |-> <<>>, loading |-> TRUE]
\* generateProblemImage (gemini.ts 340-368) resolved for the description d.
DataUrl(d) == <<"data:image/png;base64,", d>>
Loaded(d) == [url |-> DataUrl(d), loading |-> FALSE]

\* s without its k-th element.
RemoveAt(s, k) == SubSeq(s, 1, k - 1) \o SubSeq(s, k + 1, Len(s))

\* What the handlers of the App component leave alone.
outsideApp == <<now, inflight, retryVars, runVars, cacheVars, parserVars, formVars, quizVars>>

\* handleGenerate (lines 108-117) called with r: the state updates, then the
\* await of generateMathContent.
handleGenerate(r) ==
    /\ SetGenerating
    /\ runs' = Append(runs, r)
    /\ UNCHANGED <<history, images, outsideApp>>

\* InputForm handleSubmit (InputForm.tsx 56-60): the form is shown on the
\* main tab while the status is IDLE or ERROR.
handleSubmit ==
    /\ activeTab = "calculo"
    /\ status \in {"IDLE", "ERROR"}
    /\ Len(runs) < MaxRuns
    /\ Len(history) + Len(runs) < MaxHistory
    /\ \E r \in AppRequests : handleGenerate(r)

\* handleKeyDown (lines 58-81), Ctrl/Cmd+Enter: the form is submitted, if
\* there is one, when the status is IDLE.
handleKeyDown ==
    /\ status = "IDLE"
    /\ activeTab = "calculo"
    /\ Len(runs) < MaxRuns
    /\ Len(history) + Len(runs) < MaxHistory
    /\ \E r \in AppRequests : handleGenerate(r)

\* Lines 132-165: the await of a handleGenerate call resolved.
handleGenerateThen ==
    /\ \E k \in 1..Len(runs) : \E fd \in AppResults[runs[k]] :
          /\ Succeed(runs[k], fd)
          /\ runs' = RemoveAt(runs, k)
    /\ UNCHANGED <<appError, generatedImage, activeTab, images, outsideApp>>

\* Lines 167-172: the await of a handleGenerate call rejected.
handleGenerateCatch ==
    /\ \E k \in 1..Len(runs) : \E e \in AppErrors :
          /\ Fail(e)
          /\ runs' = RemoveAt(runs, k)
    /\ UNCHANGED <<problemData, uiVars, images, outsideApp>>

\* A NavItem is clicked (line 230) or Ctrl/Cmd+H is pressed (lines 65-69).
setActiveTab ==
    /\ \E id \in {"calculo", "history"} :
          /\ id # activeTab
          /\ activeTab' = id
    /\ UNCHANGED <<appVars, history, generatedImage, pendingVars, outsideApp>>

\* Lines 197-205: an item of the history tab is clicked.
restoreFromHistory ==
    /\ activeTab = "history"
    /\ \E k \in 1..Len(history) : problemData' = Some(history[k].data)
    /\ status' = "SUCCESS"
    /\ generatedImage' = None
    /\ appError' = None
    /\ activeTab' = "calculo"
    /\ UNCHANGED <<history, pendingVars, outsideApp>>

\* Lines 207-213: the button of the history tab, shown when there are items;
\* the user confirms or cancels.
clearHistory ==
    /\ activeTab = "history"
    /\ Len(history) > 0
    /\ \E confirmed \in BOOLEAN : history' = IF confirmed THEN <<>> ELSE history
    /\ UNCHANGED <<appVars, generatedImage, activeTab, pendingVars, outsideApp>>

\* Lines 215-221: the New Problem button of the result view.
resetApp ==
    /\ activeTab = "calculo"
    /\ status = "SUCCESS"
    /\ status' = "IDLE"
    /\ problemData' = None
    /\ generatedImage' = None
    /\ appError' = None
    /\ UNCHANGED <<history, activeTab, pendingVars, outsideApp>>

\* The Generate button of a displayed problem is enabled (lines 317-319).
ImageButtonEnabled ==
    /\ activeTab = "calculo"
    /\ status = "SUCCESS"
    /\ problemData # None
    /\ problemData[1].mode = "PROBLEM"
    /\ IF generatedImage = None THEN TRUE
       ELSE ~generatedImage[1].loading /\ generatedImage[1].url = <<>>

\* Lines 175-180: handleGenerateImage up to its await.
handleGenerateImage ==
    /\ ImageButtonEnabled
    /\ Len(images) < MaxImages
    /\ IF problemData[1].problem = None \/ problemData[1].problem = Some(<<>>)
       THEN UNCHANGED <<generatedImage, images>>
       ELSE /\ generatedImage' = Some(Loading)
            /\ images' = Append(images, problemData[1].problem[1])
    /\ UNCHANGED <<appVars, history, activeTab, runs, outsideApp>>

\* Lines 180-182: generateProblemImage resolved.
ImageResolve ==
    /\ \E k \in 1..Len(images) :
          /\ generatedImage' = Some(Loaded(images[k]))
          /\ images' = RemoveAt(images, k)
    /\ UNCHANGED <<appVars, history, activeTab, runs, outsideApp>>

\* Lines 183-186: generateProblemImage rejected.
ImageReject ==
    /\ \E k \in 1..Len(images) : images' = RemoveAt(images, k)
    /\ generatedImage' = None
    /\ UNCHANGED <<appVars, history, activeTab, runs, outsideApp>>

InitApp ==
    /\ now = 0
    /\ inflight = {}
    /\ InitRetryVars
    /\ InitRunVars
    /\ gpc = "none" /\ req = None
    /\ InitCacheVars
    /\ InitAppVars
    /\ InitParserVars
    /\ history \in SavedHistories
    /\ generatedImage = None
    /\ activeTab = "calculo"
    /\ runs = <<>>
    /\ images = <<>>
    /\ InitFormVars
    /\ InitQuizVars

NextApp ==
    \/ handleSubmit \/ handleKeyDown \/ handleGenerateThen \/ handleGenerateCatch
    \/ setActiveTab \/ restoreFromHistory \/ clearHistory \/ resetApp
    \/ handleGenerateImage \/ ImageResolve \/ ImageReject

SpecApp == InitApp /\ [][NextApp]_vars

\* In every state of the App specification the run followed call by call
\* has not been started.
AppTypeOK == gpc = "none" /\ Len(runs) <= MaxRuns /\ Len(images) <= MaxImages

\* -------------------------------------------------------------------------
\* Properties of the App component
\* -------------------------------------------------------------------------
\* A step in which a handleGenerate call settled.
RunSettles == Len(runs') < Len(runs)

\* C23: a handleGenerate call that succeeds prepends exactly one item, whose
\* data is the result displayed from then on; a call that fails,
\* restoreFromHistory and resetApp leave the history as it is; the only
\* other change of the history is that a confirmed clearHistory empties it;
\* restoreFromHistory displays the data of the chosen item with status
\* SUCCESS.
C23_HistoryFrame ==
    [][ /\ (RunSettles /\ status' = "SUCCESS") =>
              /\ Len(history') = Len(history) + 1
              /\ Tail(history') = history
              /\ problemData' = Some(Head(history').data)
        /\ (RunSettles /\ status' # "SUCCESS") => history' = history
        /\ (~RunSettles /\ history' # history) =>
              /\ history' = <<>>
              /\ activeTab = "history"
              /\ UNCHANGED <<appVars, generatedImage, activeTab, pendingVars>>
        /\ restoreFromHistory =>
              /\ history' = history
              /\ status' = "SUCCESS"
              /\ \E k \in 1..Len(history) : problemData' = Some(history[k].data)
        /\ resetApp => history' = history
      ]_vars

C23_Witness ==
    /\ Len(history) = 2
    /\ history[2] = SavedItem
    /\ status = "SUCCESS"
    /\ problemData = Some(history[1].data)
    /\ runs = <<>>

\* -------------------------------------------------------------------------
\* withRetry without attempts
\* -------------------------------------------------------------------------
\* C24: withRetry called with maxRetries <= 0 never invokes fn and rejects
\* with the generic error; with maxRetries >= 1 the generic error is never
\* produced, a rejection carries the error of the last attempt of fn.
C24_GenericError ==
    rpc # "idle" =>
        /\ maxRetries <= 0 =>
              /\ calls = 0 /\ attempts = <<>> /\ inflight = {}
              /\ rpc = "rejected"
              /\ rerr = Some(MaxRetriesError)
        /\ maxRetries >= 1 =>
              /\ rerr # Some(MaxRetriesError)
              /\ rpc = "rejected" =>
                    /\ attempts # <<>>
                    /\ rerr = attempts[Len(attempts)].err
                    /\ rerr \in {Some(e) : e \in Errors}

C24_Witness ==
    /\ maxRetries = -1
    /\ rpc = "rejected"
    /\ calls = 0
    /\ rerr = Some(MaxRetriesError)

\* C25: at most one handleGenerate call is in flight at any time.
C25_OneRunInFlight == Len(runs) <= 1

\* C26: status, result and error agree: SUCCESS goes with a result and no
\* error, ERROR with a non-empty message and no result, IDLE with neither.
C26_StatusAgrees ==
    /\ status = "SUCCESS" => (problemData # None /\ appError = None)
    /\ status = "ERROR" => (appError # None /\ appError # Some("") /\ problemData = None)
    /\ status = "IDLE" => (problemData = None /\ appError = None)

\* The problem text on display, if there is one.
DisplayedProblem ==
    IF status = "SUCCESS" /\ problemData # None THEN problemData[1].problem ELSE None

\* C27: an image that is loading or shown belongs to the problem on
\* display: generatedImage is set only while a problem is displayed, a shown
\* url is the image of that problem, a loading image has its request in
\* flight; and at most one image request per displayed problem is in flight.
C27_ImageBelongs ==
    /\ generatedImage # None =>
          /\ DisplayedProblem # None
          /\ generatedImage[1].loading =>
                \E k \in 1..Len(images) : Some(images[k]) = DisplayedProblem
          /\ ~generatedImage[1].loading =>
                Some(generatedImage[1].url) = Some(DataUrl(DisplayedProblem[1]))
    /\ Cardinality({k \in 1..Len(images) : Some(images[k]) = DisplayedProblem}) <= 1

\* -------------------------------------------------------------------------
\* Progress of a generation
\* -------------------------------------------------------------------------
\* Every backend call in flight settles, every timer fires, and a
\* continuation that is ready to run does run.
Fairness ==
    /\ WF_vars(RunStart)
    /\ WF_vars(AnalystResolve \/ AnalystThrow)
    /\ WF_vars(GenResolve \/ GenThrow)
    /\ WF_vars(TimerFire)
    /\ WF_vars(HandleSuccess)
    /\ WF_vars(HandleFailure)

SpecLive == Spec /\ Fairness

\* C28: after handleGenerate has set the status to GENERATING_PROBLEM the
\* status eventually becomes SUCCESS or ERROR.
C28_GenerationSettles ==
    (status = "GENERATING_PROBLEM") ~> (status \in {"SUCCESS", "ERROR"})

\* A generation went through all its retries and ended in ERROR.
C28_Witness ==
    /\ status = "ERROR"
    /\ gpc = "rejected"
    /\ calls = DefaultMaxRetries
    /\ Len(sleeps) = DefaultMaxRetries - 1

\* -------------------------------------------------------------------------
\* InputForm: the attached files  (src/components/InputForm.tsx 12-54)
\* files is the number of entries of the files array; reading holds, for
\* every handleFileChange call that is awaiting a FileReader, the number of
\* files it still has to read (todo) and the length of its newFiles (done).
\* -------------------------------------------------------------------------
MAX_FILES == 10
MaxReads == 2            \* handleFileChange calls reading at a time
\* The numbers of files the user picks in one selection.
SelectionSizes == {1, 6, 12}

\* Array.prototype.slice(0, end) on an array of length n: its length.
SliceLen(n, end) ==
    IF end >= 0 THEN (IF n <= end THEN n ELSE end)
    ELSE (IF n + end >= 0 THEN n + end ELSE 0)

outsideForm == <<now, inflight, retryVars, runVars, cacheVars, appVars, parserVars,
                 uiVars, pendingVars, quizVars>>

\* Lines 17-29 (and 47 when nothing is to be read): a selection of n files
\* is made; the input is enabled while files.length < MAX_FILES and no
\* generation runs (line 114).
handleFileChange ==
    /\ status # "GENERATING_PROBLEM"
    /\ files < MAX_FILES
    /\ Len(reading) < MaxReads
    /\ \E n \in SelectionSizes :
          LET remainingSlots == MAX_FILES - files
              filesToProcess == SliceLen(n, remainingSlots)
          IN IF filesToProcess = 0
             THEN reading' = reading
             ELSE reading' = Append(reading, [todo |-> filesToProcess, done |-> 0])
    /\ UNCHANGED <<files, outsideForm>>

\* Lines 33-47: the FileReader of a pending selection finished with a data
\* url; the file is pushed to newFiles and, after the last file,
\* setFiles(prev => [...prev, ...newFiles]) runs.
FileRead ==
    /\ \E k \in 1..Len(reading) :
          LET sel == reading[k]
          IN IF sel.todo > 1
             THEN /\ reading' = [reading EXCEPT ![k] = [todo |-> sel.todo - 1,
                                                        done |-> sel.done + 1]]
                  /\ files' = files
             ELSE /\ reading' = RemoveAt(reading, k)
                  /\ files' = files + sel.done + 1
    /\ UNCHANGED outsideForm

\* Lines 33-36: the FileReader finished with an error: reader.result is
\* null, the callback throws and the promise of line 31 never resolves.
FileReadFails ==
    /\ \E k \in 1..Len(reading) : reading' = RemoveAt(reading, k)
    /\ UNCHANGED <<files, outsideForm>>

\* Lines 52-54: the remove button of one of the listed files.
removeFile ==
    /\ status # "GENERATING_PROBLEM"
    /\ files > 0
    /\ \E index \in 0..(files - 1) : files' = files - 1
    /\ UNCHANGED <<reading, outsideForm>>

InitForm ==
    /\ now = 0
    /\ inflight = {}
    /\ InitRetryVars
    /\ InitRunVars
    /\ gpc = "none" /\ req = None
    /\ InitCacheVars
    /\ InitAppVars
    /\ InitParserVars
    /\ InitUiVars
    /\ InitFormVars
    /\ InitQuizVars

NextForm == handleFileChange \/ FileRead \/ FileReadFails \/ removeFile

SpecForm == InitForm /\ [][NextForm]_vars

\* C29: the number of attached files never exceeds MAX_FILES.
C29_FilesCapped == files <= MAX_FILES

\* -------------------------------------------------------------------------
\* QuizDisplay  (src/types.ts 184-346)
\* Questions and options are numbered from 0, as in the code.
\* -------------------------------------------------------------------------
\* The quizzes the component is shown with: the parsed quiz replies of the
\* model and a quiz of two questions.
Quizzes ==
    {JsonParse("[c1]"), JsonParse("[c2]"), JsonParse(QuizReply),
     <<Item(1, 2, 1), Item(2, 4, 0)>>}

\* data[k] for the index k of the code.
Question(k) == quizData[k + 1]
\* selectedAnswers[currentQuestionIndex] !== undefined  (line 194)
isAnswered == currentQuestionIndex \in DOMAIN selectedAnswers

outsideQuiz == <<now, inflight, retryVars, runVars, cacheVars, appVars, parserVars,
                 uiVars, pendingVars, formVars>>

\* Lines 196-199: an option button of the current question, enabled while
\* the question is not answered (line 312).
handleSelectAnswer ==
    /\ quizData # <<>>
    /\ ~showResults
    /\ ~isAnswered
    /\ \E optionIndex \in 0..(Len(Question(currentQuestionIndex).options) - 1) :
          selectedAnswers' = MapSet(selectedAnswers, currentQuestionIndex, optionIndex)
    /\ UNCHANGED <<quizData, currentQuestionIndex, showResults, outsideQuiz>>

\* Mutant of handleNext: the button is enabled on an unanswered question too.
handleNextUnanswered ==
    /\ quizData # <<>>
    /\ ~showResults
    /\ IF currentQuestionIndex < Len(quizData) - 1
       THEN /\ currentQuestionIndex' = currentQuestionIndex + 1
            /\ showResults' = showResults
       ELSE /\ showResults' = TRUE
            /\ currentQuestionIndex' = currentQuestionIndex
    /\ UNCHANGED <<quizData, selectedAnswers, outsideQuiz>>

\* Lines 201-207: the Next / Finish button, enabled once the current
\* question is answered (line 341).
handleNext ==
    /\ quizData # <<>>
    /\ ~showResults
    /\ isAnswered
    /\ IF currentQuestionIndex < Len(quizData) - 1
       THEN /\ currentQuestionIndex' = currentQuestionIndex + 1
            /\ showResults' = showResults
       ELSE /\ showResults' = TRUE
            /\ currentQuestionIndex' = currentQuestionIndex
    /\ UNCHANGED <<quizData, selectedAnswers, outsideQuiz>>

\* Lines 217-221: the Restart button of the results view.
resetQuiz ==
    /\ quizData # <<>>
    /\ showResults
    /\ selectedAnswers' = <<>>
    /\ currentQuestionIndex' = 0
    /\ showResults' = FALSE
    /\ UNCHANGED <<quizData, outsideQuiz>>

\* Lines 209-215.
calculateScore ==
    Cardinality({idx \in 0..(Len(quizData) - 1) :
                    /\ idx \in DOMAIN selectedAnswers
                    /\ selectedAnswers[idx] = Question(idx).correctAnswer})

InitQuiz ==
    /\ now = 0
    /\ inflight = {}
    /\ InitRetryVars
    /\ InitRunVars
    /\ gpc = "none" /\ req = None
    /\ InitCacheVars
    /\ InitAppVars
    /\ InitParserVars
    /\ InitUiVars
    /\ InitFormVars
    /\ quizData \in Quizzes
    /\ currentQuestionIndex = 0
    /\ selectedAnswers = <<>>
    /\ showResults = FALSE

NextQuiz == handleSelectAnswer \/ handleNext \/ resetQuiz

SpecQuiz == InitQuiz /\ [][NextQuiz]_vars

\* In every state: the index is within the quiz, and when the results are
\* shown every question has an answer and the score is within 0..len.
QuizStateOK ==
    /\ currentQuestionIndex \in 0..(Len(quizData) - 1)
    /\ DOMAIN selectedAnswers \subseteq 0..(Len(quizData) - 1)
    /\ showResults =>
          /\ DOMAIN selectedAnswers = 0..(Len(quizData) - 1)
          /\ calculateScore \in 0..Len(quizData)

\* In every step: a recorded answer stays as it is unless resetQuiz clears
\* all answers, and the quiz advances or finishes only from an answered
\* question.
QuizStepOK ==
    /\ \/ \A q \in DOMAIN selectedAnswers :
             q \in DOMAIN selectedAnswers' /\ selectedAnswers'[q] = selectedAnswers[q]
       \/ showResults /\ selectedAnswers' = <<>> /\ currentQuestionIndex' = 0 /\ ~showResults'
    /\ (currentQuestionIndex' > currentQuestionIndex \/ (showResults' /\ ~showResults))
          => isAnswered

\* C30: for every sequence of select, next and reset actions a recorded
\* answer never changes until resetQuiz clears all answers, the quiz advances
\* or finishes only from an answered question, the index stays within
\* 0..len-1, and when results are shown every question has an answer and
\* the score lies in 0..len.
C30_QuizSafe == []QuizStateOK /\ [][QuizStepOK]_vars

\* All five questions answered, two of them correctly, and results shown.
C30_Witness ==
    /\ Len(quizData) = 5
    /\ showResults
    /\ DOMAIN selectedAnswers = 0..4
    /\ calculateScore = 2

====
